---- MODULE Spec2Model ----
(***************************************************************************)
(* The far-field notebook sat_farfield as a state machine.                 *)
(*                                                                         *)
(* The state is the notebook's global namespace; there is one action per   *)
(* code cell, and a session may run the cells in any order and any number  *)
(* of times once the names a cell reads are bound.                         *)
(*                                                                         *)
(* Arithmetic is exact.  A number is a finite sequence <<c0, c1, ...>>     *)
(* standing for c0 + c1*noise + c2*noise^2 + ... with noise = 1/NoiseInv,  *)
(* i.e. a fixed-point expansion in base NoiseInv with signed digits.  An   *)
(* array is a sequence of numerators over one common denominator.          *)
(* Floating-point rounding is not modelled.                                *)
(*                                                                         *)
(* The collaborators ray_trace.rx_to_lyot and opt_analyze.* are opaque:    *)
(* what rx_to_lyot returns is an input fixed for the session (rt_a, rt_p), *)
(* the far-field power map is an input fixed for the session (ff), and the *)
(* other results are recorded as terms over the arguments the call got.    *)
(***************************************************************************)
EXTENDS Integers, Sequences, FiniteSets, TLC

VARIABLES
  rt_a,      \* amplitudes rx_to_lyot returns (fixed for the session)
  rt_p,      \* pathlengths rx_to_lyot returns (fixed for the session)
  lam,       \* tele_geo.lambda_ in thousandths (the notebook sets 0.002; SpecPhase varies it)
  ff,        \* |beam_fft|^2 as opt_analyze.a2b yields it (fixed for the session)
  obj_a,     \* contents of the array object the last rx_to_lyot call returned
  a_sim,     \* the array the name a_sim is bound to
  a_alias,   \* TRUE iff a_sim is bound to the very object rx_to_lyot returned
  p_sim,
  beam_sim,
  x, y, beam_conv,
  x_new, y_new, beam_final, beam_fft, x_ang, y_ang,
  indx, fwhm1, fwhm2, fwhm,
  err,       \* exception raised by the cell run last, "none" if it completed
  a_in,      \* history: the array a_sim held when the synthesis cell last started
  nsynth     \* synthesis runs since the last ray trace

vars == <<rt_a, rt_p, lam, ff, obj_a, a_sim, a_alias, p_sim, beam_sim, x, y,
          beam_conv, x_new, y_new, beam_final, beam_fft, x_ang, y_ang, indx,
          fwhm1, fwhm2, fwhm, err, a_in, nsynth>>

(***************************************************************************)
(* Bounds of the model                                                     *)
(***************************************************************************)
NRays == 2          \* rays per trace
MaxAmp == 2         \* largest amplitude sample
MaxPath == 9        \* largest pathlength sample
MaxLambda == 3      \* largest wavelength, in thousandths
MaxSynthRuns == 2   \* synthesis runs per ray trace
GridN == 2          \* far-field grid is GridN x GridN
MaxPower == 2       \* largest far-field power sample
AngStep == 1        \* angular axis step

(***************************************************************************)
(* Program constants                                                       *)
(***************************************************************************)
NoiseInv == 1000000   \* noise = 1e-6
LambdaMilli == 2      \* tele_geo.lambda_ = 0.002 = LambdaMilli / LambdaDen
LambdaDen == 1000
TwoPiOverPi == 2      \* the modulus 2 * np.pi, in units of pi
Halve == 2            \* the / 2 of the pathlength-to-phase conversion
apert1 == 1
apert2 == 1
PathScale == 1000     \* the 1e3 of the pathlength-to-phase conversion
pix_num == 1000
ArcminPerHalfTurn == 10800   \* 60 * 180: arcmin = rad * 60 * 180 / pi

Undef == [kind |-> "undef"]

Max2(m, n) == IF m >= n THEN m ELSE n

(***************************************************************************)
(* Exact numbers: <<c0, c1, ...>> is the sum of c_k * noise^k              *)
(***************************************************************************)
Coef(n, k) == IF k <= Len(n) THEN n[k] ELSE 0

RECURSIVE NTrim(_)
NTrim(n) ==
  IF Len(n) > 1 /\ n[Len(n)] = 0 THEN NTrim(SubSeq(n, 1, Len(n) - 1)) ELSE n

NAdd(m, n) == NTrim([k \in 1..Max2(Len(m), Len(n)) |-> Coef(m, k) + Coef(n, k)])

NNeg(n) == [k \in 1..Len(n) |-> 0 - n[k]]

NSub(m, n) == NAdd(m, NNeg(n))

\* n * noise
NTimesNoise(n) == NTrim(<<0>> \o n)

RECURSIVE ConvSum(_, _, _, _)
ConvSum(m, n, k, i) ==
  IF i = 0 THEN 0 ELSE Coef(m, i) * Coef(n, k + 1 - i) + ConvSum(m, n, k, i - 1)

NMul(m, n) == NTrim([k \in 1..(Len(m) + Len(n) - 1) |-> ConvSum(m, n, k, k)])

\* Every digit is below the base, so the leading non-zero digit decides the sign.
DigitsExact(n) == \A k \in 1..Len(n) : n[k] < NoiseInv /\ 0 - n[k] < NoiseInv

NSign(n) ==
  IF \A k \in 1..Len(n) : n[k] = 0 THEN 0
  ELSE LET j == CHOOSE j \in 1..Len(n) : n[j] # 0 /\ \A i \in 1..(j - 1) : n[i] = 0
       IN  IF n[j] > 0 THEN 1 ELSE 0 - 1

NIsZero(n) == NSign(n) = 0
NLess(m, n) == NSign(NSub(m, n)) < 0
NLeq(m, n) == NSign(NSub(m, n)) <= 0
NEq(m, n) == NSign(NSub(m, n)) = 0
NAbs(n) == IF NSign(n) < 0 THEN NNeg(n) ELSE n

(***************************************************************************)
(* Arrays: entry i is num[i] / den, den >= 0.  den = 0 holds the results   *)
(* of a division by zero: 0/0 is NaN, a non-zero numerator is +-inf.       *)
(***************************************************************************)
Arr(num, den) == [kind |-> "arr", num |-> num, den |-> den]

IsFinite(a) == a.kind = "arr" /\ NSign(a.den) > 0
IsNaN(a, i) == NIsZero(a.den) /\ NIsZero(a.num[i])
IsInf(a, i) == NIsZero(a.den) /\ ~NIsZero(a.num[i])

\* np.max(abs(a)): the numerator of the largest magnitude
NpMaxAbs(a) ==
  LET S == {NAbs(a.num[i]) : i \in 1..Len(a.num)}
  IN  CHOOSE m \in S : \A n \in S : NLeq(n, m)

\* np.max(a): the numerator of the largest entry
NpMax(a) ==
  LET S == {a.num[i] : i \in 1..Len(a.num)}
  IN  CHOOSE m \in S : \A n \in S : NLeq(n, m)

\* a / s for the scalar s = snum / a.den
DivScalar(a, snum) ==
  IF NIsZero(a.den) THEN Arr([i \in 1..Len(a.num) |-> <<0>>], <<0>>)
  ELSE IF NSign(snum) > 0 THEN Arr(a.num, snum)
  ELSE IF NSign(snum) < 0 THEN Arr([i \in 1..Len(a.num) |-> NNeg(a.num[i])], NNeg(snum))
  ELSE Arr(a.num, <<0>>)

\* a_sim /= np.max(abs(a_sim))
Normalize(a) == DivScalar(a, NpMaxAbs(a))

\* the noise floor left out
AddNoiseOmitted(a) == a

\* a_sim + noise
AddNoise(a) == Arr([i \in 1..Len(a.num) |-> NAdd(a.num[i], NTimesNoise(a.den))], a.den)

\* the second normalization left out
RenormalizeOmitted(a) == a

\* a_sim / np.max(a_sim)
Renormalize(a) == DivScalar(a, NpMax(a))

(***************************************************************************)
(* Cell 1: ray trace and pathlength-to-phase conversion.  Phases are       *)
(* rationals <<n, d>>, d > 0, in units of pi.                              *)
(***************************************************************************)
RECURSIVE SumTo(_, _)
SumTo(P, i) == IF i = 0 THEN 0 ELSE P[i] + SumTo(P, i - 1)

\* np.mean(p_sim)
Mean(P) == <<SumTo(P, Len(P)), Len(P)>>

RSub(r, s) == <<r[1] * s[2] - s[1] * r[2], r[2] * s[2]>>
RMul(r, s) == <<r[1] * s[1], r[2] * s[2]>>
RDivInt(r, c) == <<r[1], r[2] * c>>
RLess(r, s) == r[1] * s[2] < s[1] * r[2]

\* tele_geo.k = 2 * np.pi / tele_geo.lambda_, in units of pi
KOverPi(l) == <<2 * LambdaDen, l>>

\* the remainder of a division that truncates towards zero (C fmod)
NpModTruncated(r, m) ==
  LET q == IF r[1] >= 0 THEN r[1] \div (r[2] * m) ELSE 0 - ((0 - r[1]) \div (r[2] * m))
  IN  <<r[1] - (r[2] * m) * q, r[2]>>

\* np.mod(r, m) for m > 0: the result carries the sign of the divisor
NpMod(r, m) == <<r[1] - (r[2] * m) * (r[1] \div (r[2] * m)), r[2]>>

\* tele_geo.k * (p_sim - np.mean(p_sim)) / 1e3 / 2
PhaseArg(P, i, l) ==
  RDivInt(RDivInt(RMul(KOverPi(l), RSub(<<P[i], 1>>, Mean(P))), PathScale), Halve)

PathToPhase(P, l) ==
  [kind |-> "phase", val |-> [i \in 1..Len(P) |-> NpMod(PhaseArg(P, i, l), TwoPiOverPi)]]

Cell1 ==
  /\ obj_a' = rt_a              \* rx_to_lyot returns a fresh array
  /\ a_sim' = rt_a
  /\ a_alias' = TRUE
  /\ p_sim' = PathToPhase(rt_p, lam)
  /\ nsynth' = 0
  /\ err' = "none"
  /\ UNCHANGED <<rt_a, rt_p, lam, ff, beam_sim, x, y, beam_conv, x_new, y_new,
                 beam_final, beam_fft, x_ang, y_ang, indx, fwhm1, fwhm2, fwhm, a_in>>

(***************************************************************************)
(* Cell 2: field synthesis and convolution                                 *)
(***************************************************************************)
\* the noise floor added before the normalization instead of after it
SynthAmpNoiseFirst(a) == Normalize(AddNoise(a))

\* a_sim after "a_sim /= np.max(abs(a_sim)); a_sim = a_sim + noise"
SynthAmp(a) == AddNoise(Normalize(a))

\* (a_sim / np.max(a_sim)) * np.exp(complex(0, 1) * p_sim): entry i has
\* magnitude |amp[i]| and argument ph[i]
SynthBeam(a, p) == [kind |-> "beam", amp |-> Renormalize(SynthAmp(a)), ph |-> p]

\* opt_analyze.beam_convolve(np.real(x_sim) / 1e1, np.real(y_sim) / 1e1, beam_sim, apert1, apert2, 0)
ConvAxis(name) == [kind |-> "grid", axis |-> name]
ConvBeam(b) == [kind |-> "conv", of |-> b, apert |-> <<apert1, apert2>>]

Cell2 ==
  /\ a_sim.kind = "arr"
  /\ nsynth < MaxSynthRuns
  /\ a_in' = a_sim
  /\ obj_a' = IF a_alias THEN Normalize(a_sim) ELSE obj_a   \* /= writes in place
  /\ a_sim' = SynthAmp(a_sim)                               \* = binds a new array
  /\ a_alias' = FALSE
  /\ beam_sim' = SynthBeam(a_sim, p_sim)
  /\ x' = ConvAxis("x")
  /\ y' = ConvAxis("y")
  /\ beam_conv' = ConvBeam(beam_sim')
  /\ nsynth' = nsynth + 1
  /\ err' = "none"
  /\ UNCHANGED <<rt_a, rt_p, lam, ff, p_sim, x_new, y_new, beam_final, beam_fft,
                 x_ang, y_ang, indx, fwhm1, fwhm2, fwhm>>

(***************************************************************************)
(* Cell 3: zero padding, far-field transform, angular axes                 *)
(***************************************************************************)
\* opt_analyze.zero_pad(x, y, beam_conv, pix_num)
ZeroPad(t) == [kind |-> "pad", of |-> t, pix |-> pix_num]

\* opt_analyze.a2b(beam_final, phase * 180 / np.pi)
FarField(bf, pw) == [kind |-> "fft", of |-> bf, pw |-> pw]

\* opt_analyze.coords_spat_to_ang(x_new / 1e2, y_new / 1e2, opt_analyze.m_to_ghz(tele_geo.lambda_))
AngAxis(t, l) == [kind |-> "ang", of |-> t, lam |-> l]

Cell3 ==
  /\ beam_conv.kind = "conv"
  /\ x_new' = ZeroPad(x)
  /\ y_new' = ZeroPad(y)
  /\ beam_final' = ZeroPad(beam_conv)
  /\ beam_fft' = FarField(beam_final', ff)
  /\ x_ang' = AngAxis(x_new', lam)
  /\ y_ang' = AngAxis(y_new', lam)
  /\ err' = "none"
  /\ UNCHANGED <<rt_a, rt_p, lam, ff, obj_a, a_sim, a_alias, p_sim, beam_sim, x, y,
                 beam_conv, indx, fwhm1, fwhm2, fwhm, a_in, nsynth>>

(***************************************************************************)
(* Cell 4: beam-width extraction.  The power map pw is |beam_fft|^2 on a   *)
(* GridN x GridN grid; a = pw / np.max(pw) has numerators pw over the one  *)
(* denominator PowerMax(pw).  Angles are kept multiplied by pi.            *)
(***************************************************************************)
Cells == (1..GridN) \X (1..GridN)

\* np.max(abs(beam_fft) ** 2)
PowerMax(pw) == CHOOSE m \in {pw[c[1]][c[2]] : c \in Cells} : \A c \in Cells : pw[c[1]][c[2]] <= m

\* np.where(abs(a) == np.max(abs(a))): the matching cells in row-major order;
\* with a zero peak a is NaN throughout and nothing compares equal
RECURSIVE WhereFrom(_, _, _)
WhereFrom(pw, pk, k) ==
  IF k > GridN * GridN THEN <<>>
  ELSE LET i == ((k - 1) \div GridN) + 1
           j == ((k - 1) % GridN) + 1
       IN  (IF pk > 0 /\ pw[i][j] = pk THEN <<(<<i, j>>)>> ELSE <<>>)
           \o WhereFrom(pw, pk, k + 1)

NpWhereMax(pw) ==
  LET w == WhereFrom(pw, PowerMax(pw), 1)
  IN  [kind |-> "where",
       rows |-> [n \in 1..Len(w) |-> w[n][1]],
       cols |-> [n \in 1..Len(w) |-> w[n][2]]]

\* indx[0][0]
PeakRow(ix) == ix.rows[1]

\* the smallest column holding a maximum, whatever its row
PeakColSmallest(ix) ==
  CHOOSE c \in {ix.cols[n] : n \in 1..Len(ix.cols)} : \A n \in 1..Len(ix.cols) : c <= ix.cols[n]

\* indx[1][0]
PeakCol(ix) == ix.cols[1]

\* x_ang[i, j], y_ang[i, j]: the centred, uniform frequency axes that
\* coords_spat_to_ang builds (its code is not part of the notebook); x_ang varies
\* along a row, y_ang along a column
XAngAt(i, j) == (j - 1 - (GridN \div 2)) * AngStep
YAngAt(i, j) == (i - 1 - (GridN \div 2)) * AngStep

\* y_out[r, :] * 60 * 180 / np.pi with y_out = x_ang
RowCoords(r) == [j \in 1..GridN |-> XAngAt(r, j) * ArcminPerHalfTurn]

\* x_out[:, c] * 60 * 180 / np.pi with x_out = y_ang
ColCoords(c) == [i \in 1..GridN |-> YAngAt(i, c) * ArcminPerHalfTurn]

\* abs(a)[r, :] / np.max(abs(a)) and abs(a)[:, c] / np.max(abs(a))
RowCut(pw, r) == [kind |-> "cut", num |-> [j \in 1..GridN |-> pw[r][j]], den |-> PowerMax(pw)]
ColCut(pw, c) == [kind |-> "cut", num |-> [i \in 1..GridN |-> pw[i][c]], den |-> PowerMax(pw)]

\* the threshold test taken as y >= 0.5
AboveHalfInclusive(cut) == {n \in 1..Len(cut.num) : 2 * cut.num[n] >= cut.den}

\* np.where(y > 0.5)
AboveHalf(cut) == {n \in 1..Len(cut.num) : 2 * cut.num[n] > cut.den}

SetMin(S) == CHOOSE n \in S : \A m \in S : n <= m
SetMax(S) == CHOOSE n \in S : \A m \in S : m <= n

AbsInt(n) == IF n < 0 THEN 0 - n ELSE n

\* abs(v1 - v2) with v1 = x[np.where(y > 0.5)][0], v2 = x[np.where(y > 0.5)][-1]
Width(coords, cut) ==
  AbsInt(coords[SetMin(AboveHalf(cut))] - coords[SetMax(AboveHalf(cut))])

Cell4 ==
  /\ beam_fft.kind = "fft"
  /\ LET pw == beam_fft.pw
         ix == NpWhereMax(pw)
     IN  /\ indx' = ix
         /\ IF Len(ix.rows) = 0
            THEN \* indx[0][0] raises before x is rebound
                 /\ err' = "IndexError"
                 /\ UNCHANGED <<x, y, fwhm1, fwhm2, fwhm>>
            ELSE LET r == PeakRow(ix)
                     c == PeakCol(ix)
                     rc == RowCut(pw, r)
                     cc == ColCut(pw, c)
                 IN  IF AboveHalf(rc) = {}
                     THEN \* the first [0] raises: x, y hold the row cut
                          /\ err' = "IndexError"
                          /\ x' = [kind |-> "cut", val |-> RowCoords(r)]
                          /\ y' = rc
                          /\ UNCHANGED <<fwhm1, fwhm2, fwhm>>
                     ELSE IF AboveHalf(cc) = {}
                     THEN \* the second [0] raises: fwhm1 is set, x, y hold the column cut
                          /\ err' = "IndexError"
                          /\ x' = [kind |-> "cut", val |-> ColCoords(c)]
                          /\ y' = cc
                          /\ fwhm1' = [kind |-> "num", n |-> Width(RowCoords(r), rc), d |-> 1]
                          /\ UNCHANGED <<fwhm2, fwhm>>
                     ELSE /\ err' = "none"
                          /\ x' = [kind |-> "cut", val |-> ColCoords(c)]
                          /\ y' = cc
                          /\ fwhm1' = [kind |-> "num", n |-> Width(RowCoords(r), rc), d |-> 1]
                          /\ fwhm2' = [kind |-> "num", n |-> Width(ColCoords(c), cc), d |-> 1]
                          /\ fwhm' = [kind |-> "num",
                                      n |-> Width(RowCoords(r), rc) + Width(ColCoords(c), cc),
                                      d |-> 2]
  /\ UNCHANGED <<rt_a, rt_p, lam, ff, obj_a, a_sim, a_alias, p_sim, beam_sim, beam_conv,
                 x_new, y_new, beam_final, beam_fft, x_ang, y_ang, a_in, nsynth>>

(***************************************************************************)
(* Specifications                                                          *)
(***************************************************************************)
\* amplitude samples: the integers -1..MaxAmp and -noise
AmpVals == {<<v>> : v \in (0 - 1)..MaxAmp} \cup {<<0, 0 - 1>>}
AmpArrays == {Arr(a, <<1>>) : a \in [1..NRays -> AmpVals]}
PathArrays == [1..NRays -> 0..MaxPath]
Maps == [1..GridN -> [1..GridN -> 0..MaxPower]]

\* one representative of each input, for the specifications that vary another
UnitAmps == Arr([i \in 1..NRays |-> <<i>>], <<1>>)
RampPath == [i \in 1..NRays |-> MaxPath * (i - 1)]
PointMap(p) == [i \in 1..GridN |-> [j \in 1..GridN |-> IF i = 1 /\ j = 1 THEN p ELSE 0]]

InitWith(As, Ps, Ls, Ms) ==
  /\ rt_a \in As
  /\ rt_p \in Ps
  /\ lam \in Ls
  /\ ff \in Ms
  /\ obj_a = Undef /\ a_sim = Undef /\ a_alias = FALSE /\ p_sim = Undef
  /\ beam_sim = Undef /\ x = Undef /\ y = Undef /\ beam_conv = Undef
  /\ x_new = Undef /\ y_new = Undef /\ beam_final = Undef /\ beam_fft = Undef
  /\ x_ang = Undef /\ y_ang = Undef
  /\ indx = Undef /\ fwhm1 = Undef /\ fwhm2 = Undef /\ fwhm = Undef
  /\ err = "none" /\ a_in = Undef /\ nsynth = 0

\* A session over every amplitude array
Init == InitWith(AmpArrays, {RampPath}, {LambdaMilli}, {PointMap(0), PointMap(MaxPower)})

Next == Cell1 \/ Cell2 \/ Cell3 \/ Cell4

Spec == Init /\ [][Next]_vars

\* The ray-trace cell over every pathlength array and wavelength
InitPhase == InitWith({UnitAmps}, PathArrays, 1..MaxLambda, {PointMap(MaxPower)})

NextPhase == Cell1

SpecPhase == InitPhase /\ [][NextPhase]_vars

\* The extraction cell over every far-field map, after one run of cells 1 to 3
InitWidth ==
  /\ rt_a = UnitAmps
  /\ rt_p = RampPath
  /\ lam = LambdaMilli
  /\ obj_a = Normalize(rt_a)
  /\ a_sim = SynthAmp(rt_a)
  /\ a_alias = FALSE
  /\ p_sim = PathToPhase(rt_p, lam)
  /\ beam_sim = SynthBeam(rt_a, p_sim)
  /\ x = ConvAxis("x") /\ y = ConvAxis("y") /\ beam_conv = ConvBeam(beam_sim)
  /\ x_new = ZeroPad(x) /\ y_new = ZeroPad(y) /\ beam_final = ZeroPad(beam_conv)
  /\ x_ang = AngAxis(x_new, lam) /\ y_ang = AngAxis(y_new, lam)
  /\ indx = Undef /\ fwhm1 = Undef /\ fwhm2 = Undef /\ fwhm = Undef
  /\ err = "none" /\ a_in = rt_a /\ nsynth = 1
  /\ ff \in Maps
  /\ beam_fft = FarField(beam_final, ff)

NextWidth == Cell4

SpecWidth == InitWidth /\ [][NextWidth]_vars

(***************************************************************************)
(* Properties of the field synthesis (cell 2), checked under Spec          *)
(***************************************************************************)
\* Equality of values: num1/den1 = num2/den2
SameEntry(a, i, b, j) == NEq(NMul(a.num[i], b.den), NMul(b.num[j], a.den))
LessEntry(a, i, b, j) == NLess(NMul(a.num[i], b.den), NMul(b.num[j], a.den))
SameArray(a, b) ==
  IF IsFinite(a) /\ IsFinite(b)
  THEN Len(a.num) = Len(b.num) /\ \A i \in 1..Len(a.num) : SameEntry(a, i, b, i)
  ELSE a = b

Rays(a) == 1..Len(a.num)
SynthRan == a_in.kind = "arr"
NotAllZero(a) == IsFinite(a) /\ \E i \in Rays(a) : ~NIsZero(a.num[i])
NonNegative(a) == IsFinite(a) /\ \A i \in Rays(a) : NSign(a.num[i]) >= 0

\* the largest magnitude of the field is exactly 1
UnitPeak(b) == IsFinite(b.amp) /\ NEq(NpMaxAbs(b.amp), b.amp.den)

\* C2 as stated: for every amplitude array that is not identically zero, of any
\* signs, the largest magnitude of beam_sim is exactly 1.
C2_UnitPeakAnySign == (SynthRan /\ NotAllZero(a_in)) => UnitPeak(beam_sim)

\* C2 as amended: for every amplitude array with no negative entry and at least
\* one positive entry, the largest magnitude of beam_sim is exactly 1.
C2_UnitPeakNonNegative ==
  (SynthRan /\ NonNegative(a_in) /\ NotAllZero(a_in)) => UnitPeak(beam_sim)

\* a synthesis has run on a non-negative array with two different entries
C2_Witness ==
  /\ SynthRan /\ NonNegative(a_in) /\ NotAllZero(a_in)
  /\ \E i, j \in Rays(a_in) : LessEntry(a_in, i, a_in, j)
  /\ beam_sim.kind = "beam" /\ UnitPeak(beam_sim)

\* C3 as stated: for every amplitude array that is not identically zero, no
\* sample of beam_sim has magnitude exactly zero.
C3_NoZeroAnySign ==
  (SynthRan /\ NotAllZero(a_in)) =>
    \A i \in Rays(beam_sim.amp) : ~(IsFinite(beam_sim.amp) /\ NIsZero(beam_sim.amp.num[i]))

\* C3 as amended: for every amplitude array with no negative entry and at least
\* one positive entry, every sample of beam_sim has a finite magnitude above zero.
C3_NoZeroNonNegative ==
  (SynthRan /\ NonNegative(a_in) /\ NotAllZero(a_in)) =>
    (IsFinite(beam_sim.amp) /\ \A i \in Rays(beam_sim.amp) : NSign(beam_sim.amp.num[i]) > 0)

\* a synthesis has run on a non-negative array that holds a zero sample
C3_Witness ==
  /\ SynthRan /\ NonNegative(a_in) /\ NotAllZero(a_in)
  /\ \E i \in Rays(a_in) : NIsZero(a_in.num[i])
  /\ beam_sim.kind = "beam"

\* (A_i / max(A) + noise) / (1 + noise), as numerator and denominator over A's own
ExpectedNum(a, i) == NAdd(a.num[i], NTimesNoise(NpMax(a)))
ExpectedDen(a) == NAdd(NpMax(a), NTimesNoise(NpMax(a)))

\* C10: when every amplitude is non-negative and one is positive, each magnitude
\* is (A_i / max(A) + noise) / (1 + noise); so it lies in [noise / (1 + noise), 1],
\* is 1 exactly at the samples of maximal amplitude, and the order of the
\* amplitudes is kept.
C10_ExactMagnitude ==
  (SynthRan /\ NonNegative(a_in) /\ NotAllZero(a_in)) =>
    LET b == beam_sim.amp
    IN  /\ IsFinite(b)
        /\ \A i \in Rays(a_in) :
             /\ NSign(b.num[i]) >= 0
             /\ NEq(NMul(b.num[i], ExpectedDen(a_in)), NMul(ExpectedNum(a_in, i), b.den))
             /\ NLeq(NMul(NTimesNoise(<<1>>), b.den), NMul(NAdd(<<1>>, NTimesNoise(<<1>>)), b.num[i]))
             /\ NLeq(b.num[i], b.den)
             /\ (NEq(b.num[i], b.den) <=> NEq(a_in.num[i], NpMax(a_in)))
        /\ \A i, j \in Rays(a_in) : LessEntry(a_in, i, a_in, j) <=> LessEntry(b, i, b, j)

\* a synthesis has run on a non-negative array whose peak is not 1 and which
\* holds a sample below the peak
C10_Witness ==
  /\ SynthRan /\ NonNegative(a_in)
  /\ ~NEq(NpMax(a_in), a_in.den)
  /\ \E i \in Rays(a_in) : NSign(a_in.num[i]) > 0 /\ NLess(a_in.num[i], NpMax(a_in))
  /\ beam_sim.kind = "beam"

\* C4: no stage writes into an array an earlier stage produced: the array
\* rx_to_lyot returned keeps the values it was returned with.
C4_EngineArrayKept == obj_a.kind = "arr" => SameArray(obj_a, rt_a)

\* the results of one run of the cells from top to bottom
TopBeam == SynthBeam(rt_a, PathToPhase(rt_p, lam))
SameBeam(b, c) == SameArray(b.amp, c.amp) /\ b.ph = c.ph

\* C5: whatever cells ran before, each stage's result is the one a single run from
\* top to bottom gives.
C5_SameAsTopToBottom ==
  /\ beam_sim.kind = "beam" => SameBeam(beam_sim, TopBeam)
  /\ beam_conv.kind = "conv" => SameBeam(beam_conv.of, TopBeam)
  /\ x_new.kind = "pad" => x_new = ZeroPad(ConvAxis("x"))
  /\ y_new.kind = "pad" => y_new = ZeroPad(ConvAxis("y"))
  /\ beam_final.kind = "pad" => SameBeam(beam_final.of.of, TopBeam)

\* C6: when every amplitude is zero the synthesis stops with
\* DegenerateNormalization and no field reaches the convolution.
C6_ZeroAmplitudeFatal ==
  (SynthRan /\ IsFinite(a_in) /\ NIsZero(NpMaxAbs(a_in))) =>
    (err = "DegenerateNormalization" /\ beam_conv.kind = "undef")

ExtractRan == indx.kind = "where"
Map == beam_fft.pw

\* the first maximal cell in row-major scan order
FirstMaxCell(pw) ==
  LET pk == PowerMax(pw)
  IN  CHOOSE c \in Cells :
        /\ pw[c[1]][c[2]] = pk
        /\ \A e \in Cells :
             (e[1] < c[1] \/ (e[1] = c[1] /\ e[2] < c[2])) => pw[e[1]][e[2]] # pk

\* a cut normalized to its own peak: the samples above one half, and the
\* distance between the outermost of them
OwnPeak(v) == CHOOSE m \in {v[n] : n \in 1..Len(v)} : \A n \in 1..Len(v) : v[n] <= m
OwnAbove(v) == {n \in 1..Len(v) : 2 * v[n] > OwnPeak(v)}
OwnWidth(coords, v) ==
  LET l == CHOOSE n \in OwnAbove(v) : \A m \in OwnAbove(v) : n <= m
      r == CHOOSE n \in OwnAbove(v) : \A m \in OwnAbove(v) : m <= n
  IN  AbsInt(coords[l] - coords[r])

\* C1: a cut with fewer than two samples above 0.5 makes the extraction report
\* UndersampledHalfMax; no width of zero enters the mean.
C1_UndersampledReported ==
  (ExtractRan /\ PowerMax(Map) > 0
     /\ \/ Cardinality(AboveHalf(RowCut(Map, FirstMaxCell(Map)[1]))) < 2
        \/ Cardinality(AboveHalf(ColCut(Map, FirstMaxCell(Map)[2]))) < 2)
  => (err = "UndersampledHalfMax" /\ fwhm.kind = "undef")

\* C7: for a map with a positive peak, the width along each axis is the distance
\* between the outermost samples above one half of the cut's own peak, and the
\* reported width is the mean of the two.
C7_WidthByOwnPeak ==
  (ExtractRan /\ PowerMax(Map) > 0) =>
    LET r == FirstMaxCell(Map)[1]
        c == FirstMaxCell(Map)[2]
        w1 == OwnWidth(RowCoords(r), [j \in 1..GridN |-> Map[r][j]])
        w2 == OwnWidth(ColCoords(c), [i \in 1..GridN |-> Map[i][c]])
    IN  /\ err = "none"
        /\ fwhm1.kind = "num" /\ fwhm1.n = w1 * fwhm1.d
        /\ fwhm2.kind = "num" /\ fwhm2.n = w2 * fwhm2.d
        /\ fwhm.kind = "num" /\ 2 * fwhm.n = (w1 + w2) * fwhm.d

\* the extraction has run on a map with a sample at exactly one half of the peak
\* and has measured a width above zero
C7_Witness ==
  /\ ExtractRan /\ PowerMax(Map) > 0
  /\ \E e \in Cells : 2 * Map[e[1]][e[2]] = PowerMax(Map)
  /\ fwhm.kind = "num" /\ fwhm.n > 0

\* C8: the peak index is the first maximal cell in row-major order, and the two
\* cuts measured are the row and the column through that one cell.
C8_CutsThroughFirstMax ==
  (ExtractRan /\ PowerMax(Map) > 0) =>
    LET r == FirstMaxCell(Map)[1]
        c == FirstMaxCell(Map)[2]
    IN  /\ PeakRow(indx) = r
        /\ PeakCol(indx) = c
        /\ fwhm1.kind = "num" /\ fwhm1.n = Width(RowCoords(r), RowCut(Map, r)) * fwhm1.d
        /\ y = ColCut(Map, c)
        /\ x.kind = "cut" /\ x.val = ColCoords(c)

\* the extraction has run on a map whose maximum is attained at two cells that
\* share neither row nor column, the first one not in the smaller column
C8_Witness ==
  /\ ExtractRan /\ PowerMax(Map) > 0
  /\ \E e \in Cells :
       /\ Map[e[1]][e[2]] = PowerMax(Map)
       /\ e[1] > FirstMaxCell(Map)[1]
       /\ e[2] < FirstMaxCell(Map)[2]
  /\ fwhm.kind = "num"

====
